---- MODULE Spec2Model ----
(***************************************************************************)
(* Model of the text-edit application engine of the LSP client plugin:     *)
(*   plugin/edit.py        workspace-edit coordinator, pending registry,   *)
(*                         document edit applicator                        *)
(*   plugin/completion.py  multi-cursor translation of a completion edit,  *)
(*                         the completion commands and their epilogue      *)
(*                                                                         *)
(* Four specifications share the module:                                   *)
(*   Spec      the window, its views, the pending registry and the calls   *)
(*             of apply_workspace_edit / the on_load events                *)
(*   SpecEdit  LspApplyDocumentEditCommand.run on one document, inputs     *)
(*             drawn from bounded sets                                     *)
(*   SpecSel   LspCompleteTextEditCommand.translated_regions, one yielded  *)
(*             region per step                                             *)
(*   SpecComplete  LspCompleteInsertTextCommand.run and                    *)
(*             LspCompleteTextEditCommand.run with the epilogue, on a view *)
(*             with a live selection                                       *)
(*                                                                         *)
(* Conventions.  A text is a sequence of one-character strings; NL is the  *)
(* newline.  A position is <<row, col>>; a TextEdit is a record            *)
(* [start, end, new, version] (the 4-tuple of core.edit), with version =   *)
(* None when the edit carries no version.  File paths are canonical, so    *)
(* os.path.samefile is equality of paths.  The registry to_be_renamed is   *)
(* the process-wide map declared at edit.py:33, empty at start.  A command *)
(* that raises is reported by the host and does not propagate to the       *)
(* caller of view.run_command.                                             *)
(***************************************************************************)
EXTENDS Integers, Sequences, FiniteSets, TLC

VARIABLES
    views,          \* window.views(): sequence of file names, Untitled for a view without file
    loading,        \* files the host is loading (window.open_file issued, on_load not yet delivered)
    buffers,        \* file name -> [text, version, setting]: the buffer (or the content on disk)
    to_be_renamed,  \* the pending registry: file name -> entry
    calls,          \* history: one record per apply_workspace_edit call
    status,         \* history: the status messages shown, as file counts
    applied,        \* history: the edit batches handed to the applicator that ran to completion
    doc,            \* SpecEdit: the document the command runs on
    batch,          \* SpecEdit: the changes argument
    result,         \* SpecEdit: the outcome of the command
    pc,             \* SpecEdit: "ready" | "done"
    selection,      \* SpecSel: view.sel(), a sequence of regions [a, b]
    edit_region,    \* SpecSel: the region of the completion's textEdit
    yielded,        \* SpecSel: the regions the generator has yielded so far
    sel_index,      \* SpecSel: generator position, index of the next selection to translate
    item,           \* SpecComplete: the completion item the command is run with
    cview,          \* SpecComplete: the view before the command: buffer, selection, host behaviour
    completion,     \* SpecComplete: what the command has done to the view, and the host calls it made
    cmd_pc          \* SpecComplete: "ready" | "done"

vars == <<views, loading, buffers, to_be_renamed, calls, status, applied,
          doc, batch, result, pc, selection, edit_region, yielded, sel_index,
          item, cview, completion, cmd_pc>>

wsVars == <<views, loading, buffers, to_be_renamed, calls, status, applied>>
editVars == <<doc, batch, result, pc>>
selVars == <<selection, edit_region, yielded, sel_index>>
cmpVars == <<item, cview, completion, cmd_pc>>

----------------------------------------------------------------------------
(* Bounds *)

MaxLen == 2         \* longest initial text of a SpecEdit document
MaxEdits == 2       \* longest edit batch of SpecEdit
MaxCalls == 2       \* apply_workspace_edit calls per behaviour
MaxViews == 2       \* views the user opens or clones on their own
MaxSel == 3         \* most selections of SpecSel
MaxPoint == 3       \* largest buffer offset of a drawn selection or edit region

----------------------------------------------------------------------------
(* Texts and the host's buffer primitives *)

NL == "\n"
None == -1
Untitled == ""

Min(x, y) == IF x < y THEN x ELSE y

\* F applied to the value of x, x evaluated once
Eager(x, F(_)) == CHOOSE r \in {F(v) : v \in {x}} : TRUE

\* text[1..n]
Prefix(text, n) == SubSeq(text, 1, n)

\* text[n+1..]
Suffix(text, n) == SubSeq(text, n + 1, Len(text))

\* number of newlines among the first pt characters
RowOf(text, pt) == Cardinality({i \in 1..pt : text[i] = NL})

\* view.rowcol_utf16(pt) / view.rowcol(pt): all characters are one UTF-16 unit wide
rowcol(text, pt) ==
    LET row == RowOf(text, pt)
        nls == {i \in 1..pt : text[i] = NL}
        line_start == IF nls = {} THEN 0 ELSE CHOOSE i \in nls : \A j \in nls : j <= i
    IN  <<row, pt - line_start>>

\* view.text_point_utf16(row, col): offset of the row's first character plus col,
\* never past the end of the buffer; a row past the last one is the end of the buffer
text_point(text, pos) ==
    LET starts == {p \in 0..Len(text) : RowOf(text, p) = pos[1]}
    IN  IF starts = {} THEN Len(text)
        ELSE Min((CHOOSE p \in starts : \A q \in starts : p <= q) + pos[2], Len(text))

\* view.insert(edit, pt, s)
insert(text, pt, s) == Prefix(text, pt) \o s \o Suffix(text, pt)

\* view.erase(edit, Region(a, b))
erase(text, a, b) == Prefix(text, Min(a, b)) \o Suffix(text, IF a < b THEN b ELSE a)

\* view.replace(edit, Region(a, b), s)
replace(text, a, b, s) == Prefix(text, Min(a, b)) \o s \o Suffix(text, IF a < b THEN b ELSE a)

----------------------------------------------------------------------------
(* View settings: a view-level override over an inherited value *)

\* settings.get(key)
settings_get(setting) == IF setting.own # "absent" THEN setting.own ELSE setting.base

\* settings.has(key)
settings_has(setting) == settings_get(setting) # "absent"

\* settings.set(key, val)
settings_set(setting, val) == [setting EXCEPT !.own = val]

\* settings.erase(key)
settings_erase(setting) == [setting EXCEPT !.own = "absent"]

\* temporary_setting, up to the yield
temporary_setting_enter(setting) == settings_set(setting, "false")

\* temporary_setting, after the yield; prev is the settings object on entry
temporary_setting_exit(setting, prev) ==
    LET erased == settings_erase(setting)
    IN  IF settings_has(prev) /\ settings_get(erased) # settings_get(prev)
        THEN settings_set(erased, settings_get(prev))
        ELSE erased

----------------------------------------------------------------------------
(* Edit sorter (core.edit.sort_by_application_order) *)

\* start position a is strictly before start position b
PosLess(a, b) == a[1] < b[1] \/ (a[1] = b[1] /\ a[2] < b[2])

PosLeq(a, b) == a = b \/ PosLess(a, b)

\* e inserted into the sorted sequence s after every element whose start is not greater
RECURSIVE InsertSorted(_, _)
InsertSorted(s, e) ==
    IF s = <<>> THEN <<e>>
    ELSE IF PosLess(e.start, s[1].start) THEN <<e>> \o s
    ELSE <<s[1]>> \o InsertSorted(Tail(s), e)

\* ascending by range start, edits with equal starts keep their input order
RECURSIVE sort_by_application_order(_)
sort_by_application_order(changes) ==
    IF changes = <<>> THEN <<>>
    ELSE InsertSorted(sort_by_application_order(SubSeq(changes, 1, Len(changes) - 1)),
                      changes[Len(changes)])

\* reversed(seq)
reversed(s) == [i \in 1..Len(s) |-> s[Len(s) + 1 - i]]

----------------------------------------------------------------------------
(* Document edit applicator (LspApplyDocumentEditCommand) *)

\* apply_change that inserts at the start of the region whether or not it is empty
apply_change_insert_only(text, a, b, replacement) == insert(text, a, replacement)

\* apply_change: the text after one change, region = Region(a, b)
apply_change(text, a, b, replacement) ==
    IF a = b THEN insert(text, a, replacement)
    ELSE IF Len(replacement) > 0 THEN replace(text, a, b, replacement)
    ELSE erase(text, a, b)

\* one iteration of the loop of run; st = [text, version, last_row, raised]
apply_one(st, e, view_version) ==
    IF st.raised THEN st
    ELSE IF e.version # None /\ e.version # view_version THEN st
    ELSE LET a == text_point(st.text, e.start)
             b == text_point(st.text, e.end)
         IN  IF e.start[1] > st.last_row
             THEN IF e.new = <<>>
                  THEN [st EXCEPT !.raised = TRUE]    \* replacement[0]: IndexError
                  ELSE IF e.new[1] # NL
                  THEN LET t == apply_change(st.text, a, b, <<NL>> \o e.new)
                       IN  [text |-> t, version |-> st.version + 1,
                            last_row |-> rowcol(t, Len(t))[1], raised |-> FALSE]
                  ELSE [st EXCEPT !.text = apply_change(st.text, a, b, e.new),
                                  !.version = st.version + 1]
             ELSE [st EXCEPT !.text = apply_change(st.text, a, b, e.new),
                             !.version = st.version + 1]

\* the loop of run over the edits in application order
RECURSIVE apply_all(_, _, _)
apply_all(st, ordered, view_version) ==
    IF ordered = <<>> THEN st
    ELSE Eager(apply_one(st, Head(ordered), view_version),
               LAMBDA next : apply_all(next, Tail(ordered), view_version))

\* the with-block of run on buffer buf = [text, version, setting] with a non-empty
\* changes list: the buffer afterwards and whether the command raised
run_edits(buf, changes) ==
    LET view_version == buf.version
        st0 == [text |-> buf.text, version |-> buf.version,
                last_row |-> rowcol(buf.text, Len(buf.text))[1], raised |-> FALSE]
        inside == temporary_setting_enter(buf.setting)
    IN  Eager(apply_all(st0, reversed(sort_by_application_order(changes)), view_version),
              LAMBDA st :
                [text |-> st.text, version |-> st.version,
                 setting |-> IF st.raised THEN inside
                             ELSE temporary_setting_exit(inside, buf.setting),
                 raised |-> st.raised])

\* LspApplyDocumentEditCommand.run(edit, changes): no changes and no file name returns at once
run_changes(buf, changes) ==
    IF changes = <<>>
    THEN [text |-> buf.text, version |-> buf.version, setting |-> buf.setting, raised |-> FALSE]
    ELSE run_edits(buf, changes)

----------------------------------------------------------------------------
(* SpecEdit: the applicator on one document *)

Chars == {"a", NL}

\* the texts of at most n characters
RECURSIVE Texts(_)
Texts(n) ==
    IF n = 0 THEN {<<>>}
    ELSE Texts(n - 1) \cup {Append(t, c) : t \in {u \in Texts(n - 1) : Len(u) = n - 1}, c \in Chars}

Replacements == {<<>>, <<"x">>, <<NL, "x">>}

DocVersions == {1, 2}

EditVersions == {None, 1}

Settings == {[own |-> "absent", base |-> "absent"],
             [own |-> "true", base |-> "absent"],
             [own |-> "absent", base |-> "true"]}

last_row_of(text) == rowcol(text, Len(text))[1]

\* the positions of a text, and the first position of the line after its last line
Positions(text) == {rowcol(text, p) : p \in 0..Len(text)} \cup {<<last_row_of(text) + 1, 0>>}

\* the edits with valid positions for a text
Edits(text) ==
    {e \in [start : Positions(text), end : Positions(text),
            new : Replacements, version : EditVersions] : PosLeq(e.start, e.end)}

\* the sequences over S of length at most n
RECURSIVE SeqsUpTo(_, _)
SeqsUpTo(S, n) ==
    IF n = 0 THEN {<<>>}
    ELSE SeqsUpTo(S, n - 1) \cup {Append(q, x) : q \in {u \in SeqsUpTo(S, n - 1) : Len(u) = n - 1}, x \in S}

NoResult == [text |-> <<>>, version |-> 0, setting |-> [own |-> "absent", base |-> "absent"],
             raised |-> FALSE]

EditIdle ==
    /\ doc = [text |-> <<>>, version |-> 0, setting |-> [own |-> "absent", base |-> "absent"]]
    /\ batch = <<>>
    /\ result = NoResult
    /\ pc = "idle"

InitEditVars ==
    /\ doc \in {[text |-> t, version |-> v, setting |-> s] :
                    t \in Texts(MaxLen), v \in DocVersions, s \in Settings}
    /\ batch \in SeqsUpTo(Edits(doc.text), MaxEdits)
    /\ result = NoResult
    /\ pc = "ready"

\* view.run_command("lsp_apply_document_edit", {"changes": batch}) on doc
DocumentEditRun ==
    /\ pc = "ready"
    /\ result' = run_changes(doc, batch)
    /\ pc' = "done"
    /\ UNCHANGED <<doc, batch>>
    /\ UNCHANGED wsVars
    /\ UNCHANGED selVars
    /\ UNCHANGED cmpVars

----------------------------------------------------------------------------
(* Spec: the workspace-edit coordinator and the pending registry *)

Files == {"a.txt", "b.txt"}

NoSetting == [own |-> "absent", base |-> "absent"]

EmptyMap == [f \in {} |-> <<>>]

\* the edit batches a workspace edit carries for one file
WsBatches ==
    {<<[start |-> <<0, 0>>, end |-> <<0, 0>>, new |-> <<"x">>, version |-> None]>>,
     <<[start |-> <<0, 0>>, end |-> <<0, 1>>, new |-> <<"y">>, version |-> 0]>>}

\* the changes arguments: a batch for each file of a set of files
ChangesMaps == UNION {[S -> WsBatches] : S \in SUBSET Files}

\* dict.pop(fn)
Pop(map, fn) == [f \in DOMAIN map \ {fn} |-> map[f]]

\* the file names of window.views()
OpenFiles == {views[i] : i \in 1..Len(views)} \ {Untitled}

\* os.path.samefile on canonical paths
samefile(file_name, fn) == file_name = fn

\* _RenameItem(changes, callback): callback is run_callback_when_empty of call c
RenameItem(file_changes, c) == [kind |-> "item", changes |-> file_changes, callback |-> c]

\* a registry value that is the bare edit list of a changes dict
BareList(file_changes) == [kind |-> "list", changes |-> file_changes, callback |-> 0]

\* `if changes is None`: an empty dict is taken for a batch
not_changes_only_none(given, changes) == ~given

\* `if not changes` of apply_workspace_edit: None or an empty dict
not_changes(given, changes) == ~given \/ DOMAIN changes = {}

\* the body of the loop over window.views() of apply_workspace_edit for one view;
\* acc = [changes, buffers, applied]
apply_to_view(acc, file_name) ==
    LET hits == {fn \in DOMAIN acc.changes : samefile(file_name, fn)}
        fn == CHOOSE f \in hits : TRUE
    IN  IF file_name # Untitled /\ hits # {}
        THEN Eager(run_changes(acc.buffers[fn], acc.changes[fn]),
                   LAMBDA out :
                     [changes |-> Pop(acc.changes, fn),
                      buffers |-> [acc.buffers EXCEPT ![fn] =
                                     [text |-> out.text, version |-> out.version,
                                      setting |-> out.setting]],
                      applied |-> IF out.raised THEN acc.applied
                                  ELSE Append(acc.applied,
                                         [file |-> fn, changes |-> acc.changes[fn]])])
        ELSE acc

\* the loop over window.views(), from view i on
RECURSIVE apply_to_views(_, _)
apply_to_views(i, acc) ==
    IF i > Len(views) THEN acc
    ELSE Eager(apply_to_view(acc, views[i]), LAMBDA next : apply_to_views(i + 1, next))

\* the loop `to_be_renamed[fn] = _RenameItem(file_changes, run_callback_when_empty)`
register_items(registry, changes, c) ==
    [fn \in DOMAIN registry \cup DOMAIN changes |->
        IF fn \in DOMAIN changes THEN RenameItem(changes[fn], c) ELSE registry[fn]]

\* `to_be_renamed = changes`: the global now names the changes dict itself
rebind_registry(registry, changes) == [fn \in DOMAIN changes |-> BareList(changes[fn])]

\* apply_workspace_edit(window, changes, callback) as call number c: what it leaves behind
apply_workspace_edit(given, changes, c) ==
    IF not_changes(given, changes)
    THEN [buffers |-> buffers, applied |-> applied, to_be_renamed |-> to_be_renamed,
          loading |-> loading, status |-> status, callback_count |-> 1, deferred |-> {}]
    ELSE LET file_count == Cardinality(DOMAIN changes) IN
         Eager(apply_to_views(1, [changes |-> changes, buffers |-> buffers,
                                  applied |-> applied]),
               LAMBDA acc :
                 IF DOMAIN acc.changes # {}
                 THEN [buffers |-> acc.buffers, applied |-> acc.applied,
                       to_be_renamed |-> rebind_registry(
                            register_items(to_be_renamed, acc.changes, c), acc.changes),
                       loading |-> loading \cup DOMAIN acc.changes,
                       status |-> status, callback_count |-> 0,
                       deferred |-> DOMAIN acc.changes]
                 ELSE [buffers |-> acc.buffers, applied |-> acc.applied,
                       to_be_renamed |-> to_be_renamed, loading |-> loading,
                       status |-> Append(status, file_count), callback_count |-> 0,
                       deferred |-> {}])

ApplyWorkspaceEdit ==
    /\ Len(calls) < MaxCalls
    /\ \E given \in BOOLEAN, changes \in ChangesMaps :
        /\ ~given => changes = EmptyMap
        /\ \E out \in {apply_workspace_edit(given, changes, Len(calls) + 1)} :
               /\ buffers' = out.buffers
               /\ applied' = out.applied
               /\ to_be_renamed' = out.to_be_renamed
               /\ loading' = out.loading
               /\ status' = out.status
               /\ calls' = Append(calls, [given |-> given, changes |-> changes,
                                          deferred |-> out.deferred,
                                          pending_before |-> DOMAIN to_be_renamed,
                                          callback_count |-> out.callback_count])
    /\ UNCHANGED views
    /\ UNCHANGED editVars
    /\ UNCHANGED selVars
    /\ UNCHANGED cmpVars

\* run_callback_when_empty of call c, invoked with the registry as it is then:
\* st = [to_be_renamed, status, calls]
run_callback_when_empty(st, c) ==
    IF DOMAIN st.to_be_renamed = {}
    THEN [st EXCEPT !.status = Append(st.status, Cardinality(DOMAIN st.calls[c].changes)),
                    !.calls[c].callback_count = st.calls[c].callback_count + 1]
    ELSE st

\* LspApplyDocumentEditCommand.run(edit, file_name=fn) on the view of file fn:
\* the entry is popped; a bare list has no attribute `changes` and the command raises
run_file_name(fn) ==
    LET rename_item == to_be_renamed[fn]
        popped == Pop(to_be_renamed, fn)
        same == [buffers |-> buffers, applied |-> applied, to_be_renamed |-> popped,
                 status |-> status, calls |-> calls]
    IN  IF rename_item.kind # "item" THEN same
        ELSE Eager(run_edits(buffers[fn], rename_item.changes),
                   LAMBDA out :
                     LET edited == [same EXCEPT !.buffers[fn] =
                                      [text |-> out.text, version |-> out.version,
                                       setting |-> out.setting]]
                         cb == run_callback_when_empty(
                                    [to_be_renamed |-> popped, status |-> status,
                                     calls |-> calls], rename_item.callback)
                     IN  IF out.raised THEN edited
                         ELSE [edited EXCEPT
                                 !.applied = Append(applied,
                                               [file |-> fn, changes |-> rename_item.changes]),
                                 !.status = cb.status,
                                 !.calls = cb.calls])

\* ApplyEditListener.on_load(view) for the view of file_name
on_load(file_name) ==
    LET hits == {fn \in DOMAIN to_be_renamed : samefile(file_name, fn)}
    IN  IF file_name # Untitled /\ hits # {}
        THEN run_file_name(CHOOSE fn \in hits : TRUE)
        ELSE [buffers |-> buffers, applied |-> applied, to_be_renamed |-> to_be_renamed,
              status |-> status, calls |-> calls]

\* the host finishes loading file f into a new view and delivers on_load
OnLoad ==
    /\ \E f \in loading :
        /\ loading' = loading \ {f}
        /\ views' = Append(views, f)
        /\ \E out \in {on_load(f)} :
               /\ buffers' = out.buffers
               /\ applied' = out.applied
               /\ to_be_renamed' = out.to_be_renamed
               /\ status' = out.status
               /\ calls' = out.calls
    /\ UNCHANGED editVars
    /\ UNCHANGED selVars
    /\ UNCHANGED cmpVars

\* the user opens a file that is not open: the host starts loading it
UserOpenFile ==
    /\ Len(views) + Cardinality(loading) < MaxViews
    /\ \E f \in Files \ (OpenFiles \cup loading) : loading' = loading \cup {f}
    /\ UNCHANGED <<views, buffers, to_be_renamed, calls, status, applied>>
    /\ UNCHANGED editVars
    /\ UNCHANGED selVars
    /\ UNCHANGED cmpVars

\* the user clones a view, or opens a view without a file: no on_load is delivered
NewView ==
    /\ Len(views) + Cardinality(loading) < MaxViews
    /\ \E name \in OpenFiles \cup {Untitled} : views' = Append(views, name)
    /\ UNCHANGED <<loading, buffers, to_be_renamed, calls, status, applied>>
    /\ UNCHANGED editVars
    /\ UNCHANGED selVars
    /\ UNCHANGED cmpVars

\* the user closes a view; the buffer is saved
CloseView ==
    /\ \E i \in 1..Len(views) :
        views' = SubSeq(views, 1, i - 1) \o SubSeq(views, i + 1, Len(views))
    /\ UNCHANGED <<loading, buffers, to_be_renamed, calls, status, applied>>
    /\ UNCHANGED editVars
    /\ UNCHANGED selVars
    /\ UNCHANGED cmpVars

SelIdle ==
    /\ selection = <<>>
    /\ edit_region = [a |-> 0, b |-> 0]
    /\ yielded = <<>>
    /\ sel_index = 0

\* item.get(key) of a key the item does not have
Absent == "absent"

\* no host call made, the view untouched
NoCompletion == [text |-> <<>>, main_text |-> <<>>, sel |-> <<>>, yielded |-> <<>>, log |-> <<>>]

CmpIdle ==
    /\ item = [kind |-> "insertText", insertTextFormat |-> "PlainText", newText |-> <<>>,
               edit_region |-> [a |-> 0, b |-> 0], additional_given |-> FALSE,
               additionalTextEdits |-> <<>>, command |-> Absent]
    /\ cview = [text |-> <<>>, version |-> 0, setting |-> NoSetting, sel |-> <<>>, push |-> FALSE]
    /\ completion = NoCompletion
    /\ cmd_pc = "idle"

InitWsVars ==
    /\ views = <<>>
    /\ loading = {}
    /\ buffers = [f \in Files |-> [text |-> <<"a">>, version |-> 0, setting |-> NoSetting]]
    /\ to_be_renamed = EmptyMap
    /\ calls = <<>>
    /\ status = <<>>
    /\ applied = <<>>

Init == InitWsVars /\ EditIdle /\ SelIdle /\ CmpIdle

Next ==
    \/ ApplyWorkspaceEdit
    \/ OnLoad
    \/ UserOpenFile
    \/ NewView
    \/ CloseView

Spec == Init /\ [][Next]_vars

InitEdit == InitWsVars /\ InitEditVars /\ SelIdle /\ CmpIdle

NextEdit == DocumentEditRun

SpecEdit == InitEdit /\ [][NextEdit]_vars

----------------------------------------------------------------------------
(* SpecSel: multi-cursor translation (LspCompleteTextEditCommand.translated_regions) *)

\* sublime.Region(a, b)
Region(a, b) == [a |-> a, b |-> b]

\* the selection regions drawn: carets and regions one character wide, in both directions
SelRegions ==
    {r \in [a : 0..MaxPoint, b : 0..MaxPoint] : r.a - r.b \in {-1, 0, 1}}

\* the edit regions drawn
EditRegions == {r \in [a : 0..MaxPoint, b : 0..MaxPoint] : r.a <= r.b}

\* selections with ends 10, 20, 30 and the edit region [5, 8)
ExampleSelection == <<Region(10, 10), Region(20, 20), Region(30, 30)>>

ExampleEditRegion == Region(5, 8)

InitSelVars ==
    /\ \/ /\ selection \in SeqsUpTo(SelRegions, MaxSel) \ {<<>>}
          /\ edit_region \in EditRegions
       \/ /\ selection = ExampleSelection
          /\ edit_region = ExampleEditRegion
    /\ yielded = <<>>
    /\ sel_index = Len(selection)

\* primary_cursor_position = selection[0].b
primary_cursor_position(sel) == sel[1].b

\* the translation taken from the other end of the selection region
translated_edit_region_from_a(edit, region, primary) ==
    LET translation == region.a - primary
    IN  Region(edit.a + translation, edit.b + translation)

\* the region yielded for one selection region
translated_edit_region(edit, region, primary) ==
    LET translation == region.b - primary
    IN  Region(edit.a + translation, edit.b + translation)

\* one iteration of `for region in reversed(selection)`: the generator yields a region
YieldRegion ==
    /\ sel_index >= 1
    /\ yielded' = Append(yielded,
                    translated_edit_region(edit_region, selection[sel_index],
                                           primary_cursor_position(selection)))
    /\ sel_index' = sel_index - 1
    /\ UNCHANGED <<selection, edit_region>>
    /\ UNCHANGED wsVars
    /\ UNCHANGED editVars
    /\ UNCHANGED cmpVars

InitSel == InitWsVars /\ EditIdle /\ InitSelVars /\ CmpIdle

NextSel == YieldRegion

SpecSel == InitSel /\ [][NextSel]_vars

----------------------------------------------------------------------------
(* SpecComplete: the completion commands (LspCompleteInsertTextCommand,              *)
(* LspCompleteTextEditCommand) and their epilogue.  view.sel() is the view's live    *)
(* selection: the host moves its regions when the buffer changes under them.         *)

\* the buffer of the view: as many letters as there are offsets to draw from
Letters == <<"a", "b", "c", "d", "e", "f", "g", "h">>

CompletionText == [i \in 1..MaxPoint + 1 |-> Letters[i]]

\* the carets of a selection: strictly ascending offsets, as the host keeps them
RECURSIVE Carets(_, _)
Carets(n, ceiling) ==
    IF n = 0 THEN {<<>>}
    ELSE Carets(n - 1, ceiling) \cup
         {Append(q, Region(pt, pt)) :
            q \in {u \in Carets(n - 1, ceiling) : Len(u) = n - 1},
            pt \in 0..ceiling}

Ascending(sel) == \A i \in 1..Len(sel) - 1 : sel[i].b < sel[i + 1].b

NewTexts == {<<>>, <<"X">>, <<"X", "Y">>}

\* additionalTextEdits: the key missing, an empty list, one insertion at 0:0
AdditionalEdits ==
    {[given |-> FALSE, edits |-> <<>>],
     [given |-> TRUE, edits |-> <<>>],
     [given |-> TRUE,
      edits |-> <<[start |-> <<0, 0>>, end |-> <<0, 0>>, new |-> <<"x">>, version |-> None]>>]}

Commands == {Absent, "", "cmd"}

CompletionItems ==
    {[kind |-> k, insertTextFormat |-> f, newText |-> t, edit_region |-> r,
      additional_given |-> e.given, additionalTextEdits |-> e.edits, command |-> c] :
        k \in {"insertText", "textEdit"}, f \in {"PlainText", "Snippet"}, t \in NewTexts,
        r \in EditRegions, e \in AdditionalEdits, c \in Commands}

InitCompleteVars ==
    /\ item \in {it \in CompletionItems :
                    it.kind = "insertText" => it.edit_region = Region(0, 0)}
    /\ cview \in {[text |-> CompletionText, version |-> 1, setting |-> NoSetting,
                   sel |-> sel, push |-> push] :
                    sel \in {q \in Carets(MaxSel, MaxPoint) : q # <<>> /\ Ascending(q)},
                    push \in BOOLEAN}
    /\ completion = NoCompletion
    /\ cmd_pc = "ready"

\* a host call as the log records it
HostCall(op, region, text, changes, command) ==
    [op |-> op, region |-> region, text |-> text, changes |-> changes, command |-> command]

\* an offset brought into the buffer
Clamp(pt, size) == IF pt < 0 THEN 0 ELSE Min(pt, size)

\* where the host moves a selection point when [lo, hi) is erased
shift_erase(pt, lo, hi) == IF pt >= hi THEN pt - (hi - lo) ELSE IF pt > lo THEN lo ELSE pt

\* where the host moves a selection point when n characters are inserted at at;
\* push: whether a point at the insertion offset moves behind the inserted text
shift_insert(pt, at, n, push) == IF pt > at \/ (pt = at /\ push) THEN pt + n ELSE pt

\* the host keeps one region where several have become equal
RECURSIVE merged(_)
merged(sel) ==
    IF Len(sel) <= 1 THEN sel
    ELSE IF sel[1] = sel[2] THEN merged(Tail(sel))
    ELSE <<sel[1]>> \o merged(Tail(sel))

\* self.view.erase(edit, region) on v = [text, sel, yielded, log]
view_erase(v, region) ==
    LET lo == Clamp(Min(region.a, region.b), Len(v.text))
        hi == Clamp(IF region.a < region.b THEN region.b ELSE region.a, Len(v.text))
    IN  [v EXCEPT !.text = erase(v.text, lo, hi),
                  !.sel = merged([i \in 1..Len(v.sel) |->
                                    Region(shift_erase(v.sel[i].a, lo, hi),
                                           shift_erase(v.sel[i].b, lo, hi))]),
                  !.log = Append(v.log, HostCall("erase", region, <<>>, <<>>, Absent))]

\* self.view.insert(edit, pt, new_text)
view_insert(v, pt, new_text, push) ==
    LET at == Clamp(pt, Len(v.text))
    IN  [v EXCEPT !.text = insert(v.text, at, new_text),
                  !.sel = merged([i \in 1..Len(v.sel) |->
                                    Region(shift_insert(v.sel[i].a, at, Len(new_text), push),
                                           shift_insert(v.sel[i].b, at, Len(new_text), push))]),
                  !.log = Append(v.log, HostCall("insert", Region(pt, pt), new_text, <<>>, Absent))]

\* the text with s inserted at each of the first i carets of sel
RECURSIVE insert_at_carets(_, _, _, _)
insert_at_carets(text, sel, i, s) ==
    IF i = 0 THEN text
    ELSE insert_at_carets(insert(text, sel[i].b, s), sel, i - 1, s)

\* self.view.run_command("insert" | "insert_snippet", ...): the host inserts the
\* contents at every caret and leaves each caret behind what it inserted there
run_insert_command(v, op, contents) ==
    [v EXCEPT !.text = insert_at_carets(v.text, v.sel, Len(v.sel), contents),
              !.sel = [i \in 1..Len(v.sel) |->
                         Region(v.sel[i].b + i * Len(contents), v.sel[i].b + i * Len(contents))],
              !.log = Append(v.log, HostCall(op, Region(0, 0), contents, <<>>, Absent))]

\* the loop `for region in self.translated_regions(edit_region)` of run, the generator
\* at selection[index]: reversed(selection) counts the index down over the live
\* selection and ends when the selection has no region at the index;
\* plain: the branch of lines 124-127, else the loop of lines 120-121
RECURSIVE text_edit_loop(_, _, _, _, _, _, _)
text_edit_loop(v, index, edit, primary, new_text, plain, push) ==
    IF index < 1 \/ index > Len(v.sel) THEN v
    ELSE LET region == translated_edit_region(edit, v.sel[index], primary)
             erased == view_erase([v EXCEPT !.yielded = Append(v.yielded, region)], region)
         IN  Eager(IF plain THEN view_insert(erased, region.a, new_text, push) ELSE erased,
                   LAMBDA next :
                     text_edit_loop(next, index - 1, edit, primary, new_text, plain, push))

\* item.get('additionalTextEdits') is a non-empty list
has_additional_edits(it) == it.additional_given /\ it.additionalTextEdits # <<>>

\* item.get("command") is a non-empty value
has_command(it) == it.command \notin {Absent, ""}

\* epilogue that hands the command to lsp_execute before it applies the edits
epilogue_command_first(it, v, version, setting) ==
    LET executed ==
            IF has_command(it)
            THEN [v EXCEPT !.log = Append(v.log,
                        HostCall("lsp_execute", Region(0, 0), <<>>, <<>>, it.command))]
            ELSE v
    IN  IF has_additional_edits(it)
        THEN [executed EXCEPT
                !.text = run_changes([text |-> v.text, version |-> version,
                                      setting |-> setting], it.additionalTextEdits).text,
                !.log = Append(executed.log,
                        HostCall("lsp_apply_document_edit", Region(0, 0), <<>>,
                                 it.additionalTextEdits, Absent))]
        ELSE executed

\* LspCompleteCommand.epilogue(item) on v = [text, main_text, sel, yielded, log]
epilogue(it, v, version, setting) ==
    LET edited ==
            IF has_additional_edits(it)
            THEN [v EXCEPT
                    !.text = run_changes([text |-> v.text, version |-> version,
                                          setting |-> setting], it.additionalTextEdits).text,
                    !.log = Append(v.log,
                            HostCall("lsp_apply_document_edit", Region(0, 0), <<>>,
                                     it.additionalTextEdits, Absent))]
            ELSE v
    IN  IF has_command(it)
        THEN [edited EXCEPT !.log = Append(edited.log,
                    HostCall("lsp_execute", Region(0, 0), <<>>, <<>>, it.command))]
        ELSE edited

\* item["label"]
Label == <<"L">>

\* the view state a command starts from
StartOf(view) ==
    [text |-> view.text, main_text |-> view.text, sel |-> view.sel, yielded |-> <<>>,
     log |-> <<>>]

\* LspCompleteInsertTextCommand.run(edit, **item)
complete_insert_text(it, view) ==
    LET insert_text == IF it.newText # <<>> THEN it.newText ELSE Label
        op == IF it.insertTextFormat = "Snippet" THEN "insert_snippet" ELSE "insert"
    IN  Eager(run_insert_command(StartOf(view), op, insert_text),
              LAMBDA main :
                epilogue(it, [main EXCEPT !.main_text = main.text],
                         view.version + 1, view.setting))

\* LspCompleteTextEditCommand.run(edit, **item)
complete_text_edit(it, view) ==
    LET plain == it.insertTextFormat # "Snippet"
        primary == primary_cursor_position(view.sel)
    IN  Eager(text_edit_loop(StartOf(view), Len(view.sel), it.edit_region, primary,
                             it.newText, plain, view.push),
              LAMBDA looped :
                Eager(IF plain THEN looped
                      ELSE run_insert_command(looped, "insert_snippet", it.newText),
                      LAMBDA main :
                        epilogue(it, [main EXCEPT !.main_text = main.text],
                                 view.version + 1, view.setting)))

CompleteInsertTextRun ==
    /\ cmd_pc = "ready"
    /\ item.kind = "insertText"
    /\ \E out \in {complete_insert_text(item, cview)} : completion' = out
    /\ cmd_pc' = "done"
    /\ UNCHANGED <<item, cview>>
    /\ UNCHANGED wsVars
    /\ UNCHANGED editVars
    /\ UNCHANGED selVars

CompleteTextEditRun ==
    /\ cmd_pc = "ready"
    /\ item.kind = "textEdit"
    /\ \E out \in {complete_text_edit(item, cview)} : completion' = out
    /\ cmd_pc' = "done"
    /\ UNCHANGED <<item, cview>>
    /\ UNCHANGED wsVars
    /\ UNCHANGED editVars
    /\ UNCHANGED selVars

InitComplete == InitWsVars /\ EditIdle /\ SelIdle /\ InitCompleteVars

NextComplete ==
    \/ CompleteInsertTextRun
    \/ CompleteTextEditRun

SpecComplete == InitComplete /\ [][NextComplete]_vars

----------------------------------------------------------------------------
(* Properties of the workspace-edit coordinator, checked under Spec *)

\* how often the log holds the application of batch changes to file f
CountApplied(f, changes) ==
    Cardinality({i \in 1..Len(applied) : applied[i] = [file |-> f, changes |-> changes]})

\* call c named at least one file
NamesFiles(c) == calls[c].given /\ DOMAIN calls[c].changes # {}

\* C1: a single apply_workspace_edit call with a non-empty changes map invokes its
\* callback never twice, and exactly once as soon as every file it had to open has
\* finished loading.
C1_CallbackExactlyOnce ==
    (Len(calls) = 1 /\ NamesFiles(1)) =>
        /\ calls[1].callback_count <= 1
        /\ (calls[1].deferred \cap loading = {}) => calls[1].callback_count = 1

\* C2: a call whose files are all open applies every file's batch, shows the status
\* "Applied edits to N files", invokes the callback before it returns, registers
\* nothing and opens nothing.
C2_AllOpenCompletes ==
    [][(/\ Len(calls') = Len(calls) + 1
        /\ DOMAIN calls'[Len(calls')].changes # {}
        /\ DOMAIN calls'[Len(calls')].changes \subseteq OpenFiles)
       => LET call == calls'[Len(calls')]
          IN  /\ \A f \in DOMAIN call.changes :
                    /\ Len(applied') = Len(applied) + Cardinality(DOMAIN call.changes)
                    /\ \E i \in Len(applied) + 1..Len(applied') :
                            applied'[i] = [file |-> f, changes |-> call.changes[f]]
                    /\ buffers'[f].text = run_changes(buffers[f], call.changes[f]).text
              /\ status' = Append(status, Cardinality(DOMAIN call.changes))
              /\ call.callback_count = 1
              /\ to_be_renamed' = to_be_renamed
              /\ loading' = loading]_vars

\* C3: for a single call naming an open file and a file that is not open, the open
\* file's batch is applied during the call, the other file is opened, the callback is
\* not invoked before the other file's batch is applied, and once that file has
\* loaded its batch is applied and the callback has been invoked.
C3_DeferredFileCompletes ==
    /\ [][(/\ Len(calls) = 0
           /\ Len(calls') = 1
           /\ DOMAIN calls'[1].changes \cap OpenFiles # {}
           /\ DOMAIN calls'[1].changes \ OpenFiles # {})
          => /\ \A f \in DOMAIN calls'[1].changes \cap OpenFiles :
                    /\ applied'[Len(applied')] = [file |-> f, changes |-> calls'[1].changes[f]]
                    /\ buffers'[f].text = run_changes(buffers[f], calls'[1].changes[f]).text
             /\ DOMAIN calls'[1].changes \ OpenFiles \subseteq loading'
             /\ calls'[1].callback_count = 0]_vars
    /\ []((/\ Len(calls) = 1
           /\ NamesFiles(1)
           /\ calls[1].deferred # {}
           /\ calls[1].deferred # DOMAIN calls[1].changes)
          => /\ calls[1].callback_count > 0 =>
                    \A f \in calls[1].deferred : CountApplied(f, calls[1].changes[f]) = 1
             /\ (calls[1].deferred \cap loading = {}) =>
                    /\ \A f \in calls[1].deferred :
                            CountApplied(f, calls[1].changes[f]) = 1
                    /\ calls[1].callback_count = 1)

\* C4: every file named in the batch of a single call has its batch applied at most
\* once, and exactly once when the file is open or has finished loading.
C4_EveryFileAppliedOnce ==
    (Len(calls) = 1 /\ NamesFiles(1)) =>
        \A f \in DOMAIN calls[1].changes :
            /\ CountApplied(f, calls[1].changes[f]) <= 1
            /\ (f \notin loading) => CountApplied(f, calls[1].changes[f]) = 1

\* C5: apply_workspace_edit with an empty or absent changes map invokes the callback
\* once, synchronously, and changes nothing else: no buffer, no status message, no
\* file opened, the registry as it was; the callback is not invoked again later.
C5_EmptyBatch ==
    /\ [][(Len(calls') = Len(calls) + 1 /\ DOMAIN calls'[Len(calls')].changes = {})
          => /\ calls'[Len(calls')].callback_count = 1
             /\ SubSeq(calls', 1, Len(calls)) = calls
             /\ UNCHANGED <<views, loading, buffers, to_be_renamed, status, applied>>]_vars
    /\ [](\A c \in 1..Len(calls) :
            DOMAIN calls[c].changes = {} => calls[c].callback_count = 1)

\* an empty dict and an absent map have both been passed, with a view open and an
\* entry pending
C5_Witness ==
    /\ Len(calls) = 2
    /\ DOMAIN calls[2].changes = {}
    /\ calls[2].given
    /\ calls[2].callback_count = 1
    /\ DOMAIN to_be_renamed # {}
    /\ OpenFiles # {}

\* C10: two calls in flight together, each naming files that are not open and that
\* the other does not name: each callback is invoked at most once, only after the
\* files of its own call had their batches applied, and exactly once when all files
\* have loaded.
C10_TwoCallsBothComplete ==
    (/\ Len(calls) = 2
     /\ NamesFiles(1) /\ NamesFiles(2)
     /\ calls[1].deferred = DOMAIN calls[1].changes
     /\ calls[2].deferred = DOMAIN calls[2].changes
     /\ DOMAIN calls[1].changes \cap DOMAIN calls[2].changes = {}
     /\ calls[2].pending_before = DOMAIN calls[1].changes)
    => \A c \in {1, 2} :
        /\ calls[c].callback_count <= 1
        /\ calls[c].callback_count = 1 =>
                \A f \in DOMAIN calls[c].changes : CountApplied(f, calls[c].changes[f]) >= 1
        /\ (loading = {}) => calls[c].callback_count = 1

\* the step is the handling of the load event of file f
IsLoadOf(f) == f \in loading /\ loading' = loading \ {f}

\* the step is an apply_workspace_edit call
IsCall == Len(calls') = Len(calls) + 1

\* C11: when apply_workspace_edit returns, the registry holds for each file of the
\* batch that was not open one entry with that file's edit batch and the call's
\* continuation; the load event of such a file applies the entry's batch to the
\* loaded document and removes the entry, and the continuation then runs on the
\* registry without it: the call's callback is invoked when the registry is empty.
C11_PendingEntryLifecycle ==
    /\ [][IsCall =>
            \A f \in calls'[Len(calls')].deferred :
                /\ f \in DOMAIN to_be_renamed'
                /\ to_be_renamed'[f] = RenameItem(calls'[Len(calls')].changes[f], Len(calls'))]_vars
    /\ [][\A f \in DOMAIN to_be_renamed :
            IsLoadOf(f) =>
                /\ to_be_renamed[f].kind = "item"
                /\ applied' = Append(applied, [file |-> f, changes |-> to_be_renamed[f].changes])
                /\ buffers'[f].text = run_changes(buffers[f], to_be_renamed[f].changes).text
                /\ to_be_renamed' = Pop(to_be_renamed, f)
                /\ LET c == to_be_renamed[f].callback
                   IN  calls'[c].callback_count =
                            calls[c].callback_count + (IF DOMAIN to_be_renamed' = {} THEN 1 ELSE 0)]_vars

\* C13: the entry of a file that is still not loaded stays in the registry, whatever
\* happens to other files, and as long as the entry a call registered for one of its
\* files is pending, the call's callback has not been invoked.
C13_MissingFile ==
    /\ [][\A f \in DOMAIN to_be_renamed :
            (/\ ~IsLoadOf(f)
             /\ IsCall => f \notin DOMAIN calls'[Len(calls')].changes)
            => /\ f \in DOMAIN to_be_renamed'
               /\ to_be_renamed'[f] = to_be_renamed[f]]_vars
    /\ [](\A c \in 1..Len(calls) :
            (\E f \in calls[c].deferred :
                /\ f \in DOMAIN to_be_renamed
                /\ to_be_renamed[f].changes = calls[c].changes[f]
                /\ \A d \in c + 1..Len(calls) : f \notin DOMAIN calls[d].changes)
            => calls[c].callback_count = 0)

\* C14: a second batch for a file that has a pending entry replaces that entry; when
\* the file has loaded, the second batch has been applied to it once and the first
\* batch never, and the first call, if that file was all it waited for, never has its
\* callback invoked.
C14_SecondBatchReplaces ==
    /\ [][(IsCall /\ Len(calls) = 1) =>
            \A f \in calls'[2].deferred \cap DOMAIN to_be_renamed :
                to_be_renamed'[f].changes = calls'[2].changes[f]]_vars
    /\ []((Len(calls) = 2) =>
            \A f \in calls[1].deferred \cap calls[2].deferred \cap calls[2].pending_before :
                /\ calls[1].changes[f] # calls[2].changes[f]
                        => CountApplied(f, calls[1].changes[f]) = 0
                /\ f \notin loading => CountApplied(f, calls[2].changes[f]) = 1
                /\ calls[1].deferred = {f} => calls[1].callback_count = 0)

\* C19: a call that registers entries leaves every entry of another file path as it
\* was, so the registry then holds the entries of both batches, and a file of the
\* first batch that loads later still gets the first batch's edits.
C19_OtherEntriesUntouched ==
    /\ [][(IsCall /\ calls'[Len(calls')].deferred # {}) =>
            \A f \in DOMAIN to_be_renamed \ DOMAIN calls'[Len(calls')].changes :
                /\ f \in DOMAIN to_be_renamed'
                /\ to_be_renamed'[f] = to_be_renamed[f]]_vars
    /\ []((/\ Len(calls) = 2
           /\ calls[2].deferred # {}
           /\ calls[2].pending_before = calls[1].deferred)
          => \A f \in calls[1].deferred \ DOMAIN calls[2].changes :
                f \notin loading => CountApplied(f, calls[1].changes[f]) = 1)

----------------------------------------------------------------------------
(* Properties of the document edit applicator, checked under SpecEdit *)

\* the edit carries no version or the version the document has when the command starts
IsFresh(e) == e.version = None \/ e.version = doc.version

\* the replacement the applicator is to insert for edit e on a text: a newline is
\* prepended when the start line is past the last line and the replacement does not
\* begin with one; empty_too says whether this holds for an empty replacement as well
ExpectedReplacement(text, e, empty_too) ==
    IF e.start[1] > last_row_of(text) /\ ((e.new = <<>> /\ empty_too) \/ (e.new # <<>> /\ e.new[1] # NL))
    THEN <<NL>> \o e.new
    ELSE e.new

\* edits in ascending start order, each applied at its position in the original text,
\* the part of the text before offset `from` already consumed
RECURSIVE ExpectedSplice(_, _, _, _)
ExpectedSplice(text, ordered, from, empty_too) ==
    IF ordered = <<>> THEN Suffix(text, from)
    ELSE SubSeq(text, from + 1, text_point(text, Head(ordered).start))
            \o ExpectedReplacement(text, Head(ordered), empty_too)
            \o ExpectedSplice(text, Tail(ordered), text_point(text, Head(ordered).end),
                              empty_too)

\* the texts that count as every edit of the batch applied to the original text,
\* whichever way an empty replacement past the last line is taken
ExpectedTexts(text, edits) ==
    {ExpectedSplice(text, sort_by_application_order(edits), 0, empty_too) :
        empty_too \in BOOLEAN}

\* the ranges of a batch are pairwise non-overlapping
NonOverlapping(edits) ==
    \A i, j \in 1..Len(edits) :
        i < j => PosLeq(edits[i].end, edits[j].start) \/ PosLeq(edits[j].end, edits[i].start)

\* no two edits of a batch start at the same position
DistinctStarts(edits) ==
    \A i, j \in 1..Len(edits) : i < j => edits[i].start # edits[j].start

\* the orders a batch of n edits can arrive in
InputOrders(n) == {p \in [1..n -> 1..n] : \A i, j \in 1..n : i # j => p[i] # p[j]}

\* C6: edits whose version is present and differs from the document's version leave
\* the buffer unchanged (a batch of such edits completes without a change) and do not
\* disturb the others; the edits whose version is absent or equal to the document's
\* are applied.
C6_VersionGuard ==
    pc = "done" =>
        LET fresh == SelectSeq(batch, IsFresh)
        IN  /\ fresh = <<>> => (result.text = doc.text /\ ~result.raised)
            /\ result.text = run_changes(doc, fresh).text
            /\ (NonOverlapping(fresh) /\ DistinctStarts(fresh))
                    => result.text \in ExpectedTexts(doc.text, fresh)

\* C7: a batch of pairwise non-overlapping edits (here: with pairwise different start
\* positions, none skipped by the version guard) gives the same text in every input
\* order, the text obtained by applying every edit at its position in the original
\* document.
C7_OrderIndependence ==
    (/\ pc = "done"
     /\ \A i \in 1..Len(batch) : IsFresh(batch[i])
     /\ NonOverlapping(batch)
     /\ DistinctStarts(batch))
    => /\ \A p \in InputOrders(Len(batch)) :
            run_changes(doc, [i \in 1..Len(batch) |-> batch[p[i]]]).text = result.text
       /\ result.text \in ExpectedTexts(doc.text, batch)

\* C8: on a document without trailing newline, a single edit that starts past the
\* last line yields the document, a newline and the replacement when the replacement
\* does not begin with a newline, and the document and the replacement when it does.
C8_BeyondEndInsertion ==
    (/\ pc = "done"
     /\ Len(batch) = 1
     /\ IsFresh(batch[1])
     /\ (doc.text = <<>> \/ doc.text[Len(doc.text)] # NL)
     /\ batch[1].start[1] > last_row_of(doc.text))
    => result.text =
          IF batch[1].new = <<>> \/ batch[1].new[1] # NL
          THEN doc.text \o <<NL>> \o batch[1].new
          ELSE doc.text \o batch[1].new

\* C12: the command runs to completion without raising for every batch of edits with
\* valid positions, deletions and edits that start past the last line included.
C12_NoFailurePath ==
    pc = "done" => ~result.raised

\* the batch with the versions of its edits taken away
WithoutVersions(edits) == [i \in 1..Len(edits) |-> [edits[i] EXCEPT !.version = None]]

\* C15: in a batch of several edits that all carry the version the document has when
\* the command starts, no edit is held back: the command completes and the text is the
\* one the same edits give when they carry no version.
C15_VersionCapturedOnce ==
    (/\ pc = "done"
     /\ Len(batch) >= 2
     /\ \A i \in 1..Len(batch) : batch[i].version = doc.version)
    => /\ result.text = run_changes(doc, WithoutVersions(batch)).text
       /\ (NonOverlapping(batch) /\ DistinctStarts(batch))
               => result.text \in ExpectedTexts(doc.text, batch)

\* C16: one change on region [a, b) with replacement r gives the text before a, then
\* r, then the text from b on: an empty region loses nothing, a non-empty region loses
\* exactly its span, the replacement (empty for a deletion) stands in its place, and
\* the text outside the region is as it was; a single edit that does not start past
\* the last line leaves the document so.
C16_RegionSemantics ==
    pc = "done" =>
        /\ \A i \in 1..Len(batch) :
            LET a == text_point(doc.text, batch[i].start)
                b == text_point(doc.text, batch[i].end)
                r == batch[i].new
                out == apply_change(doc.text, a, b, r)
            IN  /\ Len(out) = Len(doc.text) - (b - a) + Len(r)
                /\ Prefix(out, a) = Prefix(doc.text, a)
                /\ SubSeq(out, a + 1, a + Len(r)) = r
                /\ Suffix(out, a + Len(r)) = Suffix(doc.text, b)
        /\ (/\ Len(batch) = 1
            /\ IsFresh(batch[1])
            /\ batch[1].start[1] <= last_row_of(doc.text))
           => LET a == text_point(doc.text, batch[1].start)
                  b == text_point(doc.text, batch[1].end)
              IN  /\ ~result.raised
                  /\ result.text = Prefix(doc.text, a) \o batch[1].new \o Suffix(doc.text, b)

\* a single edit has replaced a non-empty span by a non-empty text
C16_Witness ==
    /\ pc = "done"
    /\ Len(batch) = 1
    /\ IsFresh(batch[1])
    /\ batch[1].start = <<0, 0>>
    /\ batch[1].end = <<0, 1>>
    /\ batch[1].new = <<"x">>
    /\ doc.text = <<"a", "a">>
    /\ result.text = <<"x", "a">>

\* C17: when the command has ended, by whatever path, the translate_tabs_to_spaces
\* setting of the view is what it was before the command: the same value, and no
\* value of the view's own if it had none.
C17_SettingRestored ==
    pc = "done" => result.setting = doc.setting

----------------------------------------------------------------------------
(* Properties of the multi-cursor translation, checked under SpecSel *)

----------------------------------------------------------------------------
(* Properties of the completion commands, checked under SpecComplete *)

\* the edit region translated for the i-th selection of the view as it was before
\* the command
RegionFor(i) ==
    Region(item.edit_region.a + (cview.sel[i].b - cview.sel[1].b),
           item.edit_region.b + (cview.sel[i].b - cview.sel[1].b))

\* the text with the regions i, i + 1, ... replaced by new_text, the text before
\* offset `from` already consumed
RECURSIVE ReplacedFrom(_, _, _, _)
ReplacedFrom(text, i, from, new_text) ==
    IF i > Len(cview.sel) THEN Suffix(text, from)
    ELSE SubSeq(text, from + 1, RegionFor(i).a) \o new_text
            \o ReplacedFrom(text, i + 1, RegionFor(i).b, new_text)

\* the command leaves the same view whether or not the host moves a caret that sits
\* at an insertion offset
SameForEitherPush ==
    complete_text_edit(item, [cview EXCEPT !.push = ~cview.push]) = completion

\* C18: the plain-text branch yields one region per selection, from the last selection
\* to the first, each the edit region translated for that selection; when the
\* translated regions lie in the buffer and do not overlap, the buffer after the loop
\* is the original buffer with every translated region replaced by the new text.
\* (Stated for the runs whose outcome does not rest on what the host does with a caret
\* at an insertion offset.)
C18_MultiCursorApplication ==
    (/\ cmd_pc = "done"
     /\ SameForEitherPush
     /\ item.kind = "textEdit"
     /\ item.insertTextFormat = "PlainText"
     /\ Ascending(cview.sel)
     /\ \A i \in 1..Len(cview.sel) :
            0 <= RegionFor(i).a /\ RegionFor(i).b <= Len(cview.text)
     /\ \A i \in 1..Len(cview.sel) - 1 : RegionFor(i).b <= RegionFor(i + 1).a)
    => /\ Len(completion.yielded) = Len(cview.sel)
       /\ \A k \in 1..Len(completion.yielded) :
            completion.yielded[k] = RegionFor(Len(cview.sel) + 1 - k)
       /\ completion.main_text = ReplacedFrom(cview.text, 1, 0, item.newText)

\* the positions of the log that hold a call of one of the operations ops
CallsOf(ops) == {i \in 1..Len(completion.log) : completion.log[i].op \in ops}

\* C20: when a completion command has run, the calls that insert the main text come
\* first; a non-empty additionalTextEdits is then handed once to the document edit
\* applicator and applied to the buffer; a command that is present is handed once to
\* lsp_execute, as the last call; without additionalTextEdits the applicator is not
\* called and the buffer is as the main insertion left it, and without a command
\* lsp_execute is not called.
C20_EpilogueOrdering ==
    cmd_pc = "done" =>
        LET main_at == CallsOf({"erase", "insert", "insert_snippet"})
            edits_at == CallsOf({"lsp_apply_document_edit"})
            cmd_at == CallsOf({"lsp_execute"})
        IN  /\ main_at # {}
            /\ has_additional_edits(item) =>
                    /\ Cardinality(edits_at) = 1
                    /\ \A i \in edits_at :
                            /\ completion.log[i].changes = item.additionalTextEdits
                            /\ \A j \in main_at : j < i
                    /\ completion.text \in
                            ExpectedTexts(completion.main_text, item.additionalTextEdits)
            /\ ~has_additional_edits(item) =>
                    /\ edits_at = {}
                    /\ completion.text = completion.main_text
            /\ has_command(item) =>
                    /\ Cardinality(cmd_at) = 1
                    /\ \A i \in cmd_at :
                            /\ completion.log[i].command = item.command
                            /\ i = Len(completion.log)
                            /\ \A j \in main_at \cup edits_at : j < i
            /\ ~has_command(item) => cmd_at = {}

\* a text-edit completion with additional edits and a command has run
C20_Witness ==
    /\ cmd_pc = "done"
    /\ item.kind = "textEdit"
    /\ has_additional_edits(item)
    /\ has_command(item)
    /\ Len(cview.sel) = 2
    /\ completion.log[Len(completion.log)].op = "lsp_execute"
    /\ completion.log[Len(completion.log) - 1].op = "lsp_apply_document_edit"
    /\ completion.text # completion.main_text

====
